---- MODULE Spec2Model ----
(***************************************************************************)
(* MedTransNet: the training loop (train.py: train), the evaluation loop  *)
(* (train.py: evaluate) and the single-task evaluation loop               *)
(* (training.py: evaluate_model).                                         *)
(*                                                                         *)
(* Tensors are modelled by their shape (number of dimensions and length), *)
(* confidences by integers in hundredths, the loss weight by integers in  *)
(* tenths, frac by a numerator over FracDen, averages by exact fractions. *)
(* The graph model, the LLM, the loss functions and the loaders' contents *)
(* are external: their results are drawn from small sets.                 *)
(***************************************************************************)
EXTENDS Integers, Sequences, FiniteSets, TLC

\* ---------------------------------------------------------------- bounds
FracDen == 2         \* frac is drawn from the multiples of 1/FracDen
MaxPos == 2          \* most question_correct_answer edge labels of a batch
MaxNeg == 3          \* most question_wrong_answer edge labels of a batch
MaxLoaderLen == 2    \* most batches of a split loader
MaxQuestions == 2    \* most questions of a loader whose batches are enumerated
NumUids == 2         \* number of distinct question node_uids
MaxFracNum == 3      \* frac ranges over -1/FracDen .. MaxFracNum/FracDen
MaxLoss == 2         \* loss values range over 0..MaxLoss
MaxEpochs == 2       \* num_epochs ranges over 1..MaxEpochs
MaxLaterSteps == 1   \* most updates of the model's parameters after the run returned

\* ------------------------------------------------------ program constants
num_neg_samples == 2         \* train.py:97 and train.py:257
Threshold == 26              \* train.py:289, the literal 0.26 in hundredths
MalformedConfidence == -1    \* train.py:307, the literal -1
One == 10                    \* train.py:66, the literal 1 in tenths
DefaultFrac == FracDen       \* train.py:199, frac=1.0 as DefaultFrac/FracDen
SecondsPerMinute == 60       \* training.py:120, the literal 60

Uids == 1..NumUids
Splits == {"train", "val", "test"}
NoFeedback == [present |-> FALSE, cop_confidence_without_context |-> 0, is_correct_without_context |-> 0]
\* the feedback records: a wrong or right answer with confidence 0.25 or 0.26
Feedbacks == [present : {TRUE}, cop_confidence_without_context : {Threshold - 1, Threshold},
              is_correct_without_context : {0, 1}]
\* what llm.get_confidence can return: a malformed response or a parsed one
LLMResponses == [confidence : {MalformedConfidence}, cop_confidence : {0}, accuracy : {0}]
                  \cup {[confidence |-> 50, cop_confidence |-> 0, accuracy |-> 0],
                        [confidence |-> 50, cop_confidence |-> 50, accuracy |-> 1]}
NoResponse == [confidence |-> 0, cop_confidence |-> 0, accuracy |-> 0]

\* ------------------------------------------------------------- arithmetic
Max(a, b) == IF a >= b THEN a ELSE b
Min(a, b) == IF a <= b THEN a ELSE b

RECURSIVE GCD(_, _)
GCD(a, b) == IF b = 0 THEN a ELSE GCD(b, a % b)

RECURSIVE SumSeq(_)
SumSeq(s) == IF s = <<>> THEN 0 ELSE Head(s) + SumSeq(Tail(s))

\* a float value as an exact fraction n/d in lowest terms; d = 0 stands for
\* the ZeroDivisionError a division by zero raises
Frac(n, d) == IF d = 0 THEN [n |-> 0, d |-> 0]
              ELSE LET g == GCD(n, d) IN IF n = 0 THEN [n |-> 0, d |-> 1] ELSE [n |-> n \div g, d |-> d \div g]
IntVal(k) == [n |-> k, d |-> 1]
FracAdd(x, y) == Frac(x.n * y.d + y.n * x.d, x.d * y.d)

RECURSIVE SumFrac(_)
SumFrac(s) == IF s = <<>> THEN IntVal(0) ELSE FracAdd(Head(s), SumFrac(Tail(s)))

\* Python's x / k for an integer k
PyDiv(x, k) == Frac(x.n, x.d * k)

\* Python's round() of the float n/d, d > 0: half to even
PyRound(n, d) ==
    LET q == n \div d
        r == n % d
    IN  IF 2 * r < d THEN q
        ELSE IF 2 * r > d THEN q + 1
        ELSE IF q % 2 = 0 THEN q ELSE q + 1

\* the average without the floor of the denominator
AverageUnfloored(l) == PyDiv(IntVal(SumSeq(l)), Len(l))

\* sum(l) / max(1, len(l)) for a list of numbers
Average(l) == PyDiv(IntVal(SumSeq(l)), Max(1, Len(l)))
\* sum(l) / max(1, len(l)) for a list of batch averages
AverageOfAverages(l) == PyDiv(SumFrac(l), Max(1, Len(l)))

\* ---------------------------------------------------------------- tensors
Tensor(dim, size) == [dim |-> dim, size |-> size]
\* batch[...].edge_label of an edge set with n labelled pairs: shape [n]
EdgeLabel(n) == Tensor(1, n)
\* Tensor.squeeze(): drops the dimensions of length 1
Squeeze(t) == IF t.dim = 1 /\ t.size = 1 THEN Tensor(0, 1) ELSE t
\* t.view(1)
View1(t) == Tensor(1, 1)
\* the "if y.dim() == 0: y = y.view(1)" guard
ReshapeScalar(t) == IF t.dim = 0 THEN View1(t) ELSE t
\* t[idx] for a 1-d index tensor idx: a 0-d tensor cannot be indexed
CanIndex(t) == t.dim >= 1
IndexSelect(t, idx) == Tensor(1, Len(idx))
\* torch.cat(list, dim=0) succeeds on a non-empty list of tensors of >= 1 dimensions
CanCat(l) == l # <<>> /\ \A k \in 1..Len(l) : l[k].dim >= 1

\* the results of torch.randperm(n)[:k]: the sequences of min(k, n) distinct
\* indices of 0..n-1
RandpermPrefix(n, k) ==
    {s \in [1..Min(k, n) -> 0..(n - 1)] : \A a, b \in 1..Min(k, n) : a # b => s[a] # s[b]}

\* the slice without the num_neg_samples factor
NegSampleIndicesOnePerPositive(neg_size, pos_y) == RandpermPrefix(neg_size, pos_y.size)

\* neg_sample_indices = torch.randperm(neg_indices.size(1))[:num_neg_samples * pos_y.size(0)]
NegSampleIndices(neg_size, pos_y) == RandpermPrefix(neg_size, num_neg_samples * pos_y.size)

\* the batches a loader can yield: P positive labels, N_neg negative pairs,
\* and the node_uid of the question of every positive label
Batches ==
    UNION {[P : {p}, N_neg : 0..MaxNeg, node_uid : [1..p -> Uids]] : p \in 0..MaxPos}
NoBatch == [P |-> 0, N_neg |-> 0, node_uid |-> <<>>]

\* every node_uid taken to have a feedback record
HasFeedbackAlways(dict, question_uid) == TRUE

\* "question_uid not in llm_feedbacks_dict" is false
HasFeedback(dict, question_uid) == dict[question_uid].present

\* the comparison with <= in place of <
BelowThresholdInclusive(conf) == conf <= Threshold

\* cop_confidence_without_context < 0.26
BelowThreshold(conf) == conf < Threshold

\* the malformed response tested on the wrong key
IsMalformedWrongKey(llm_response_dict) == llm_response_dict.cop_confidence = MalformedConfidence

\* llm_response_dict['confidence'] == -1
IsMalformed(llm_response_dict) == llm_response_dict.confidence = MalformedConfidence

\* the comparison with >= in place of >
ShouldAppendAlways(batch_average_context_confidence) == batch_average_context_confidence.n >= 0

\* batch_average_context_confidence > 0
ShouldAppend(batch_average_context_confidence) == batch_average_context_confidence.n > 0

\* the comparison with > in place of >=
ReachedLimitStrict(batch_num, num_batches) == batch_num > num_batches

\* batch_num >= num_batches
ReachedLimit(batch_num, num_batches) == batch_num >= num_batches

\* num_batches = round(frac * len(loader))
NumBatches(fr, len) == PyRound(fr * len, FracDen)


\* ------------------------------------------------------------------ state
VARIABLES
    pc,                    \* the position of the program
    exc,                   \* the exception that ended the run and the function that raised it
    mode,                  \* the shared model's mode: "train" or "eval"
    entry,                 \* the function the run calls: "train", "evaluate", "evaluate_model"
    split_loaders,         \* split -> the loader: at every position the batches it can yield there
    losses,                \* the values the two loss functions of the run return
    llm_feedbacks_dict,    \* node_uid -> precomputed feedback (val_llm_feedbacks_dict)
    link_prediction_loss_weight,   \* in tenths
    num_epochs,
    times,                 \* the timestamps that the successive calls of get_time return
    parameters,            \* the shared model's parameters: the number of in-place updates so far
    evaluated,             \* split -> how many evaluations of the split have been started
    split_name,            \* evaluate's / evaluate_model's split_name argument
    frac,                  \* evaluate's / evaluate_model's frac argument, numerator over FracDen
    caller,                \* where evaluate returns to: "top", "epoch", "final"
    ev,                    \* the locals of evaluate
    em,                    \* the locals of evaluate_model
    tr,                    \* the locals of train
    tm,                    \* the locals of train_model
    fwd,                   \* the last forward pass: the function that ran it and the model's mode
    processed,             \* the loader positions of the batches the current evaluation processed
    lastQ                  \* what the last iteration of evaluate's question loop did

inputs == <<entry, split_loaders, losses, llm_feedbacks_dict, link_prediction_loss_weight, num_epochs, times>>
vars == <<pc, exc, mode, parameters, evaluated, inputs, split_name, frac, caller, ev, em, tr, tm, fwd, processed, lastQ>>

\* ------------------------------------------- training.py: result records
\* EpochResult(epoch_num=..., train_start_time=..., train_end_time=..., ...)
EpochResult(epoch_num, train_start_time, train_end_time) ==
    [epoch_num |-> epoch_num, train_start_time |-> train_start_time, train_end_time |-> train_end_time]

\* ModelResult(start_time, end_time, epoch_results, state_dict, ...)
ModelResult(start_time, end_time, epoch_results, state_dict) ==
    [start_time |-> start_time, end_time |-> end_time, epoch_results |-> epoch_results,
     state_dict |-> state_dict]

\* sum([er.train_end_time - er.train_start_time for er in self.epoch_results])
get_total_train_time_sec(self) ==
    SumSeq([k \in 1..Len(self.epoch_results) |->
              self.epoch_results[k].train_end_time - self.epoch_results[k].train_start_time])

\* the minutes of every epoch, floored one by one and then added
get_total_train_time_min_per_epoch(self) ==
    SumSeq([k \in 1..Len(self.epoch_results) |->
              (self.epoch_results[k].train_end_time - self.epoch_results[k].train_start_time)
                  \div SecondsPerMinute])

\* self.get_total_train_time_sec() // 60: Python's floor division
get_total_train_time_min(self) == get_total_train_time_sec(self) \div SecondsPerMinute

\* get_time() at the call whose number is calls + 1: the rounded clock
get_time(calls) == times[calls + 1]

\* model.state_dict(): a dict of references to the model's live tensors
state_dict(model_parameters) == [live |-> TRUE, value |-> model_parameters]

\* the dict kept as it is, its tensors still the model's
keep_reference(sd) == sd

\* copy.deepcopy(sd): the tensors are copied by value
deepcopy(sd) == [live |-> FALSE, value |-> sd.value]

\* the tensors read through a state dict at the present moment
Tensors(sd) == IF sd.live THEN parameters ELSE sd.value

NoStateDict == [live |-> FALSE, value |-> -1]
NoResult == ModelResult(0, 0, <<>>, NoStateDict)

NoTensor == Tensor(1, 0)
NoQuestion == [uid |-> 0, context |-> FALSE, inference |-> FALSE, response |-> NoResponse]
NoForward == [fn |-> "", mode |-> ""]

\* evaluate's locals before its first statement
EvInit ==
    [num_batches |-> 0, i |-> 0, batch_num |-> 0, batch |-> NoBatch, q |-> 1,
     pos_eval_y |-> NoTensor, neg_labels |-> NoTensor, neg_sample_indices |-> <<>>,
     pos_y_true_tensors |-> <<>>, neg_y_true_tensors |-> <<>>,
     vanilla_accuracy_list |-> <<>>, vanilla_confidence_list |-> <<>>,
     llm_aided_accuracy_list |-> <<>>, llm_aided_confidence_list |-> <<>>,
     batch_average_vanilla_confidence |-> IntVal(0), batch_average_vanilla_accuracy |-> IntVal(0),
     batch_average_context_confidence |-> IntVal(0), batch_average_context_accuracy |-> IntVal(0),
     average_llm_aided_confidence_list |-> <<>>, average_llm_aided_accuracy_list |-> <<>>,
     average_llm_vanilla_confidence_list |-> <<>>, average_llm_vanilla_accuracy_list |-> <<>>,
     true_size |-> 0,
     llm_results |-> [vanilla_accuracy |-> IntVal(0), context_accuracy |-> IntVal(0)]]

\* evaluate_model's locals before its first statement
EmInit == [num_batches |-> 0, i |-> 0, batch_num |-> 0, y_true_tensors |-> <<>>, true_size |-> 0]

\* train's locals before its first statement
TrInit ==
    [llm_relevancy_loss_weight |-> 0, epoch_num |-> 0, i |-> 0, batch |-> NoBatch,
     pos_train_y |-> NoTensor, neg_labels |-> NoTensor, neg_sample_indices |-> <<>>,
     pos_y_true_tensors |-> <<>>, neg_y_true_tensors |-> <<>>,
     link_prediction_loss |-> 0, llm_relevancy_loss |-> 0, total_loss |-> 0,
     opt_steps |-> 0, scheduler_steps |-> 0, epoch_results |-> <<>>,
     time_calls |-> 0, start_time |-> 0, train_start_time |-> 0, train_end_time |-> 0,
     end_time |-> 0, state_dict |-> NoStateDict, medical_hgt_result |-> NoResult,
     saved |-> <<>>, train_time_min |-> 0]

\* train_model's locals before its first statement
TmInit ==
    [epoch_num |-> 0, i |-> 0, y_true_tensors |-> <<>>, opt_steps |-> 0, epoch_results |-> <<>>,
     time_calls |-> 0, start_time |-> 0, train_start_time |-> 0, train_end_time |-> 0,
     end_time |-> 0, state_dict |-> NoStateDict, model_result |-> NoResult,
     saved |-> <<>>, train_time_min |-> 0]

NoException == [type |-> "", fn |-> ""]
\* an exception of type e raised in function f: nothing catches it, the run ends
Raise(e, f) == pc' = "raised" /\ exc' = [type |-> e, fn |-> f]

\* ------------------------------------------------- train.py: evaluate
\* lines 221-234: medical_hgt.eval(), the empty lists, num_batches
EvalEnter ==
    /\ pc = "evaluate"
    /\ mode' = "eval"
    /\ evaluated' = [evaluated EXCEPT ![split_name] = @ + 1]
    /\ ev' = [EvInit EXCEPT !.num_batches = NumBatches(frac, Len(split_loaders[split_name]))]
    /\ processed' = <<>>
    /\ lastQ' = NoQuestion
    /\ pc' = "eval_for"
    /\ UNCHANGED <<exc, inputs, split_name, frac, caller, em, tr, fwd, parameters, tm>>

\* lines 237-278: the next batch of the loader, the forward pass, the negative
\* sampling and the accumulation of predictions and labels; the loop ends
\* when the loader is exhausted
EvalFor ==
    /\ pc = "eval_for"
    /\ IF ev.i >= Len(split_loaders[split_name])
       THEN /\ pc' = "eval_exit"
            /\ UNCHANGED <<exc, ev, fwd, processed, lastQ>>
       ELSE \E b \in split_loaders[split_name][ev.i + 1] :
            LET pos_eval_y == ReshapeScalar(Squeeze(EdgeLabel(b.P)))
                neg_labels == Squeeze(EdgeLabel(b.N_neg))
            IN  \E idx \in NegSampleIndices(b.N_neg, pos_eval_y) :
                LET head == [ev EXCEPT !.batch_num = ev.i + 1, !.batch = b, !.q = 1,
                                       !.pos_eval_y = pos_eval_y, !.neg_labels = neg_labels,
                                       !.neg_sample_indices = idx]
                IN  /\ fwd' = [fn |-> "evaluate", mode |-> mode]
                    /\ processed' = Append(processed, ev.i + 1)
                    /\ lastQ' = NoQuestion
                    /\ IF ~CanIndex(neg_labels)
                       THEN /\ ev' = head
                            /\ Raise("IndexError", "evaluate")
                       ELSE /\ ev' = [head EXCEPT
                                 !.pos_y_true_tensors = Append(ev.pos_y_true_tensors, pos_eval_y),
                                 !.neg_y_true_tensors = Append(ev.neg_y_true_tensors,
                                                               ReshapeScalar(IndexSelect(neg_labels, idx))),
                                 !.vanilla_accuracy_list = <<>>, !.vanilla_confidence_list = <<>>,
                                 !.llm_aided_accuracy_list = <<>>, !.llm_aided_confidence_list = <<>>]
                            /\ pc' = "eval_question"
                            /\ UNCHANGED exc
    /\ UNCHANGED <<mode, inputs, split_name, frac, caller, em, tr, parameters, evaluated, tm>>

\* lines 280-322: one iteration of the loop over unseen_questions_indices
EvalQuestion ==
    /\ pc = "eval_question"
    /\ ev.q <= Len(ev.batch.node_uid)
    /\ LET question_uid == ev.batch.node_uid[ev.q]
           llm_feedback_without_context == llm_feedbacks_dict[question_uid]
           conf == llm_feedback_without_context.cop_confidence_without_context
           acc == llm_feedback_without_context.is_correct_without_context
           next == [ev EXCEPT !.q = ev.q + 1]
       IN  IF ~HasFeedback(llm_feedbacks_dict, question_uid)
           THEN \* line 285-286: continue
                /\ ev' = next
                /\ lastQ' = [uid |-> question_uid, context |-> FALSE, inference |-> FALSE, response |-> NoResponse]
           ELSE IF BelowThreshold(conf)
           THEN \* lines 290-315: find_most_relevant_nodes, llm.inference, llm.get_confidence
                \E llm_response_dict \in LLMResponses :
                   /\ lastQ' = [uid |-> question_uid, context |-> TRUE, inference |-> TRUE,
                                response |-> llm_response_dict]
                   /\ IF IsMalformed(llm_response_dict)
                      THEN ev' = next
                      ELSE ev' = [next EXCEPT
                              !.llm_aided_confidence_list = Append(@, llm_response_dict.cop_confidence),
                              !.llm_aided_accuracy_list = Append(@, llm_response_dict.accuracy),
                              !.vanilla_confidence_list = Append(@, conf),
                              !.vanilla_accuracy_list = Append(@, acc)]
           ELSE \* lines 317-322
                /\ lastQ' = [uid |-> question_uid, context |-> FALSE, inference |-> FALSE, response |-> NoResponse]
                /\ ev' = [next EXCEPT
                              !.llm_aided_confidence_list = Append(@, conf),
                              !.llm_aided_accuracy_list = Append(@, acc),
                              !.vanilla_confidence_list = Append(@, conf),
                              !.vanilla_accuracy_list = Append(@, acc)]
    /\ UNCHANGED <<pc, exc, mode, inputs, split_name, frac, caller, em, tr, fwd, processed, parameters, evaluated, tm>>

\* lines 324-337: the batch averages, their conditional append to the running
\* lists, and the break when batch_num reaches num_batches
EvalBatchEnd ==
    /\ pc = "eval_question"
    /\ ev.q > Len(ev.batch.node_uid)
    /\ LET vc == Average(ev.vanilla_confidence_list)
           va == Average(ev.vanilla_accuracy_list)
           cc == Average(ev.llm_aided_confidence_list)
           ca == Average(ev.llm_aided_accuracy_list)
           avg == [ev EXCEPT !.batch_average_vanilla_confidence = vc,
                             !.batch_average_vanilla_accuracy = va,
                             !.batch_average_context_confidence = cc,
                             !.batch_average_context_accuracy = ca]
       IN  IF vc.d = 0 \/ va.d = 0 \/ cc.d = 0 \/ ca.d = 0
           THEN /\ ev' = ev
                /\ Raise("ZeroDivisionError", "evaluate")
           ELSE /\ ev' = IF ShouldAppend(cc)
                         THEN [avg EXCEPT
                                 !.average_llm_aided_confidence_list = Append(@, cc),
                                 !.average_llm_aided_accuracy_list = Append(@, ca),
                                 !.average_llm_vanilla_confidence_list = Append(@, vc),
                                 !.average_llm_vanilla_accuracy_list = Append(@, va),
                                 !.i = ev.i + 1]
                         ELSE [avg EXCEPT !.i = ev.i + 1]
                /\ pc' = IF ReachedLimit(ev.batch_num, ev.num_batches) THEN "eval_exit" ELSE "eval_for"
                /\ UNCHANGED exc
    /\ UNCHANGED <<mode, inputs, split_name, frac, caller, em, tr, fwd, processed, lastQ, parameters, evaluated, tm>>

\* lines 339-354: medical_hgt.train(), the concatenations, llm_results, return
EvalExit ==
    /\ pc = "eval_exit"
    /\ mode' = "train"
    /\ LET va == AverageOfAverages(ev.average_llm_vanilla_accuracy_list)
           ca == AverageOfAverages(ev.average_llm_aided_accuracy_list)
       IN  IF ~CanCat(ev.pos_y_true_tensors) \/ ~CanCat(ev.neg_y_true_tensors)
           THEN /\ ev' = ev
                /\ Raise("RuntimeError", "evaluate")
           ELSE IF va.d = 0 \/ ca.d = 0
           THEN /\ ev' = ev
                /\ Raise("ZeroDivisionError", "evaluate")
           ELSE /\ ev' = [ev EXCEPT
                            !.true_size = SumSeq([k \in 1..Len(ev.pos_y_true_tensors) |-> ev.pos_y_true_tensors[k].size])
                                          + SumSeq([k \in 1..Len(ev.neg_y_true_tensors) |-> ev.neg_y_true_tensors[k].size]),
                            !.llm_results = [vanilla_accuracy |-> va, context_accuracy |-> ca]]
                /\ pc' = IF caller = "epoch" THEN "epoch_after_eval"
                         ELSE IF caller = "final" THEN "train_after_test"
                         ELSE "returned"
                /\ UNCHANGED exc
    /\ UNCHANGED <<inputs, split_name, frac, caller, em, tr, fwd, processed, lastQ, parameters, evaluated, tm>>

\* ------------------------------------------ training.py: evaluate_model
\* lines 37-43: model.eval(), the empty lists, num_batches
EvaluateModelEnter ==
    /\ pc = "evaluate_model"
    /\ mode' = "eval"
    /\ evaluated' = [evaluated EXCEPT ![split_name] = @ + 1]
    /\ em' = [EmInit EXCEPT !.num_batches = NumBatches(frac, Len(split_loaders[split_name]))]
    /\ processed' = <<>>
    /\ pc' = "em_for"
    /\ UNCHANGED <<exc, inputs, split_name, frac, caller, ev, tr, fwd, lastQ, parameters, tm>>

\* lines 45-62: the next batch, the forward pass, the accumulation and the break
EvaluateModelFor ==
    /\ pc = "em_for"
    /\ IF em.i >= Len(split_loaders[split_name])
       THEN /\ pc' = "em_exit"
            /\ UNCHANGED <<em, fwd, processed>>
       ELSE \E b \in split_loaders[split_name][em.i + 1] :
            /\ fwd' = [fn |-> "evaluate_model", mode |-> mode]
            /\ processed' = Append(processed, em.i + 1)
            /\ em' = [em EXCEPT !.batch_num = em.i + 1, !.i = em.i + 1,
                                !.y_true_tensors = Append(@, EdgeLabel(b.P))]
            /\ pc' = IF ReachedLimit(em.i + 1, em.num_batches) THEN "em_exit" ELSE "em_for"
    /\ UNCHANGED <<exc, mode, inputs, split_name, frac, caller, ev, tr, lastQ, parameters, evaluated, tm>>

\* lines 64-69: model.train(), the concatenations, return
EvaluateModelExit ==
    /\ pc = "em_exit"
    /\ mode' = "train"
    /\ IF ~CanCat(em.y_true_tensors)
       THEN /\ em' = em
            /\ Raise("RuntimeError", "evaluate_model")
       ELSE /\ em' = [em EXCEPT !.true_size = SumSeq([k \in 1..Len(em.y_true_tensors) |-> em.y_true_tensors[k].size])]
            /\ pc' = IF caller = "epoch" THEN "tm_after_eval"
                     ELSE IF caller = "final" THEN "tm_after_test"
                     ELSE "returned"
            /\ UNCHANGED exc
    /\ UNCHANGED <<inputs, split_name, frac, caller, ev, tr, fwd, processed, lastQ, parameters, evaluated, tm>>

\* ---------------------------------------------------- train.py: train
\* the loop left one epoch before the last of the range
RangeExhaustedEarly(epoch_num, n) == epoch_num + 1 >= n

\* for epoch_num in range(1, num_epochs + 1): no value is left after epoch_num
RangeExhausted(epoch_num, n) == epoch_num >= n

\* opt.step(): the parameters are updated in place
OptStep(model_parameters) == model_parameters + 1

\* the sum with the link-prediction weight on both terms
TotalLossOneWeight(lp_weight, llm_weight, lp_loss, llm_loss) == lp_weight * lp_loss + lp_weight * llm_loss

\* total_loss = link_prediction_loss_weight * link_prediction_loss
\*              + llm_relevancy_loss_weight * llm_relevancy_loss   (in tenths)
TotalLoss(lp_weight, llm_weight, lp_loss, llm_loss) == lp_weight * lp_loss + llm_weight * llm_loss

\* llm_relevancy_loss_weight = 1 - link_prediction_loss_weight   (in tenths)
LlmRelevancyLossWeight(lp_weight) == One - lp_weight

\* torch.save(obj, file_name): the file holds the values the object has now
Serialize(obj) == [obj EXCEPT !.state_dict = [live |-> FALSE, value |-> Tensors(obj.state_dict)]]

\* lines 50-68: medical_hgt.train(), the optimizer, the scheduler, start_time,
\* the weights, the empty epoch_results
TrainEnter ==
    /\ pc = "train"
    /\ mode' = "train"
    /\ tr' = [TrInit EXCEPT !.llm_relevancy_loss_weight = LlmRelevancyLossWeight(link_prediction_loss_weight),
                            !.start_time = get_time(0), !.time_calls = 1]
    /\ pc' = "epoch_for"
    /\ UNCHANGED <<exc, inputs, split_name, frac, caller, ev, em, fwd, processed, lastQ, parameters, evaluated, tm>>

\* lines 70-77: the next epoch_num of range(1, num_epochs + 1), train_start_time
\* and the empty lists of the epoch; after the last epoch the loop ends
EpochFor ==
    /\ pc = "epoch_for"
    /\ IF RangeExhausted(tr.epoch_num, num_epochs)
       THEN /\ pc' = "train_final"
            /\ tr' = tr
       ELSE /\ pc' = "train_for"
            /\ tr' = [tr EXCEPT !.epoch_num = tr.epoch_num + 1, !.i = 0,
                                !.train_start_time = get_time(tr.time_calls),
                                !.time_calls = tr.time_calls + 1,
                                !.pos_y_true_tensors = <<>>, !.neg_y_true_tensors = <<>>]
    /\ UNCHANGED <<exc, mode, inputs, split_name, frac, caller, ev, em, fwd, processed, lastQ, parameters, evaluated, tm>>

\* lines 80-123: one training batch: the forward pass, the negative sampling,
\* the loss, the optimizer step and the accumulation; the loop ends when the
\* loader is exhausted
TrainFor ==
    /\ pc = "train_for"
    /\ IF tr.i >= Len(split_loaders["train"])
       THEN /\ pc' = "epoch_end"
            /\ UNCHANGED <<exc, tr, fwd, parameters>>
       ELSE \E b \in split_loaders["train"][tr.i + 1],
               link_prediction_loss \in losses, llm_relevancy_loss \in losses :
            LET pos_train_y == ReshapeScalar(Squeeze(EdgeLabel(b.P)))
                neg_labels == Squeeze(EdgeLabel(b.N_neg))
            IN  \E idx \in NegSampleIndices(b.N_neg, pos_train_y) :
                LET head == [tr EXCEPT !.batch = b, !.pos_train_y = pos_train_y,
                                       !.neg_labels = neg_labels, !.neg_sample_indices = idx]
                IN  /\ fwd' = [fn |-> "train", mode |-> mode]
                    /\ IF ~CanIndex(neg_labels)
                       THEN /\ tr' = head
                            /\ Raise("IndexError", "train")
                            /\ UNCHANGED parameters
                       ELSE /\ tr' = [head EXCEPT
                                 !.link_prediction_loss = link_prediction_loss,
                                 !.llm_relevancy_loss = llm_relevancy_loss,
                                 !.total_loss = TotalLoss(link_prediction_loss_weight, tr.llm_relevancy_loss_weight,
                                                          link_prediction_loss, llm_relevancy_loss),
                                 !.opt_steps = tr.opt_steps + 1,
                                 !.pos_y_true_tensors = Append(tr.pos_y_true_tensors, pos_train_y),
                                 !.neg_y_true_tensors = Append(tr.neg_y_true_tensors,
                                                               ReshapeScalar(IndexSelect(neg_labels, idx))),
                                 !.i = tr.i + 1]
                            /\ parameters' = OptStep(parameters)
                            /\ pc' = "train_for"
                            /\ UNCHANGED exc
    /\ UNCHANGED <<mode, inputs, split_name, frac, caller, ev, em, processed, lastQ, evaluated, tm>>

\* lines 125-146: train_end_time, the concatenation of the epoch's tensors,
\* then the call of evaluate on the val split
EpochEnd ==
    /\ pc = "epoch_end"
    /\ tr' = [tr EXCEPT !.train_end_time = get_time(tr.time_calls), !.time_calls = tr.time_calls + 1]
    /\ IF ~CanCat(tr.pos_y_true_tensors) \/ ~CanCat(tr.neg_y_true_tensors)
       THEN /\ Raise("RuntimeError", "train")
            /\ UNCHANGED <<split_name, frac, caller>>
       ELSE /\ split_name' = "val"
            /\ frac' = DefaultFrac
            /\ caller' = "epoch"
            /\ pc' = "evaluate"
            /\ UNCHANGED exc
    /\ UNCHANGED <<mode, inputs, ev, em, fwd, processed, lastQ, parameters, evaluated, tm>>

\* lines 148-175: the EpochResult and its append to epoch_results
EpochAfterEval ==
    /\ pc = "epoch_after_eval"
    /\ tr' = [tr EXCEPT !.epoch_results =
                 Append(@, EpochResult(tr.epoch_num, tr.train_start_time, tr.train_end_time))]
    /\ ev' = EvInit
    /\ pc' = "scheduler_step"
    /\ UNCHANGED <<exc, mode, inputs, split_name, frac, caller, em, fwd, processed, lastQ, parameters, evaluated, tm>>

\* line 177: scheduler.step(), the end of the epoch
SchedulerStep ==
    /\ pc = "scheduler_step"
    /\ tr' = [tr EXCEPT !.scheduler_steps = @ + 1]
    /\ pc' = "epoch_for"
    /\ UNCHANGED <<exc, mode, inputs, split_name, frac, caller, ev, em, fwd, processed, lastQ, parameters, evaluated, tm>>

\* lines 179-182: the deep copy of the state dict, then the call of evaluate
\* on the test split
TrainFinal ==
    /\ pc = "train_final"
    /\ tr' = [tr EXCEPT !.state_dict = deepcopy(state_dict(parameters))]
    /\ split_name' = "test"
    /\ frac' = DefaultFrac
    /\ caller' = "final"
    /\ pc' = "evaluate"
    /\ UNCHANGED <<exc, mode, inputs, ev, em, fwd, processed, lastQ, parameters, evaluated, tm>>

\* lines 184-196: medical_hgt.eval(), end_time, the ModelResult, torch.save,
\* the total train time, return
TrainAfterTest ==
    /\ pc = "train_after_test"
    /\ mode' = "eval"
    /\ LET medical_hgt_result == ModelResult(tr.start_time, get_time(tr.time_calls),
                                             tr.epoch_results, tr.state_dict)
       IN  tr' = [tr EXCEPT !.end_time = get_time(tr.time_calls), !.time_calls = tr.time_calls + 1,
                            !.medical_hgt_result = medical_hgt_result,
                            !.saved = Append(@, Serialize(medical_hgt_result)),
                            !.train_time_min = get_total_train_time_min(medical_hgt_result)]
    /\ ev' = EvInit
    /\ pc' = "done"
    /\ UNCHANGED <<exc, inputs, split_name, frac, caller, em, fwd, processed, lastQ, parameters, evaluated, tm>>

\* ---------------------------------------------- training.py: train_model
\* lines 129-141: model.train(), the optimizer, start_time, the empty
\* epoch_results
TrainModelEnter ==
    /\ pc = "train_model"
    /\ mode' = "train"
    /\ tm' = [TmInit EXCEPT !.start_time = get_time(0), !.time_calls = 1]
    /\ pc' = "tm_epoch_for"
    /\ UNCHANGED <<exc, inputs, split_name, frac, caller, ev, em, tr, fwd, processed, lastQ, parameters, evaluated>>

\* lines 143-150: the next epoch_num of range(1, num_epochs + 1), train_start_time
\* and the empty lists of the epoch; after the last epoch the loop ends
TrainModelEpochFor ==
    /\ pc = "tm_epoch_for"
    /\ IF RangeExhausted(tm.epoch_num, num_epochs)
       THEN /\ pc' = "tm_final"
            /\ tm' = tm
       ELSE /\ pc' = "tm_for"
            /\ tm' = [tm EXCEPT !.epoch_num = tm.epoch_num + 1, !.i = 0,
                                !.train_start_time = get_time(tm.time_calls),
                                !.time_calls = tm.time_calls + 1,
                                !.y_true_tensors = <<>>]
    /\ UNCHANGED <<exc, mode, inputs, split_name, frac, caller, ev, em, tr, fwd, processed, lastQ, parameters, evaluated>>

\* lines 152-177: one training batch: the forward pass, the loss, the optimizer
\* step and the accumulation; the loop ends when the loader is exhausted
TrainModelFor ==
    /\ pc = "tm_for"
    /\ IF tm.i >= Len(split_loaders["train"])
       THEN /\ pc' = "tm_epoch_end"
            /\ UNCHANGED <<tm, fwd, parameters>>
       ELSE \E b \in split_loaders["train"][tm.i + 1] :
            /\ fwd' = [fn |-> "train_model", mode |-> mode]
            /\ tm' = [tm EXCEPT !.opt_steps = tm.opt_steps + 1,
                                !.y_true_tensors = Append(tm.y_true_tensors, EdgeLabel(b.P)),
                                !.i = tm.i + 1]
            /\ parameters' = OptStep(parameters)
            /\ pc' = "tm_for"
    /\ UNCHANGED <<exc, mode, inputs, split_name, frac, caller, ev, em, tr, processed, lastQ, evaluated>>

\* lines 179-192: train_end_time, the concatenation of the epoch's tensors,
\* then the call of evaluate_model on the val split
TrainModelEpochEnd ==
    /\ pc = "tm_epoch_end"
    /\ tm' = [tm EXCEPT !.train_end_time = get_time(tm.time_calls), !.time_calls = tm.time_calls + 1]
    /\ IF ~CanCat(tm.y_true_tensors)
       THEN /\ Raise("RuntimeError", "train_model")
            /\ UNCHANGED <<split_name, frac, caller>>
       ELSE /\ split_name' = "val"
            /\ frac' = DefaultFrac
            /\ caller' = "epoch"
            /\ pc' = "evaluate_model"
            /\ UNCHANGED exc
    /\ UNCHANGED <<mode, inputs, ev, em, tr, fwd, processed, lastQ, parameters, evaluated>>

\* lines 194-204: the EpochResult and its append to epoch_results, the end of
\* the epoch
TrainModelAfterEval ==
    /\ pc = "tm_after_eval"
    /\ tm' = [tm EXCEPT !.epoch_results =
                 Append(@, EpochResult(tm.epoch_num, tm.train_start_time, tm.train_end_time))]
    /\ em' = EmInit
    /\ pc' = "tm_epoch_for"
    /\ UNCHANGED <<exc, mode, inputs, split_name, frac, caller, ev, tr, fwd, processed, lastQ, parameters, evaluated>>

\* lines 206-207: the deep copy of the state dict, then the call of
\* evaluate_model on the test split
TrainModelFinal ==
    /\ pc = "tm_final"
    /\ tm' = [tm EXCEPT !.state_dict = deepcopy(state_dict(parameters))]
    /\ split_name' = "test"
    /\ frac' = DefaultFrac
    /\ caller' = "final"
    /\ pc' = "evaluate_model"
    /\ UNCHANGED <<exc, mode, inputs, ev, em, tr, fwd, processed, lastQ, parameters, evaluated>>

\* lines 209-218: model.eval(), end_time, the ModelResult, torch.save, the
\* total train time, return
TrainModelAfterTest ==
    /\ pc = "tm_after_test"
    /\ mode' = "eval"
    /\ LET model_result == ModelResult(tm.start_time, get_time(tm.time_calls),
                                       tm.epoch_results, tm.state_dict)
       IN  tm' = [tm EXCEPT !.end_time = get_time(tm.time_calls), !.time_calls = tm.time_calls + 1,
                            !.model_result = model_result,
                            !.saved = Append(@, Serialize(model_result)),
                            !.train_time_min = get_total_train_time_min(model_result)]
    /\ em' = EmInit
    /\ pc' = "done"
    /\ UNCHANGED <<exc, inputs, split_name, frac, caller, ev, tr, fwd, processed, lastQ, parameters, evaluated>>

\* ------------------------------------------------------- specifications
FeedbackDicts == [Uids -> Feedbacks \cup {NoFeedback}]
NoFeedbacks == [u \in Uids |-> NoFeedback]

\* batches of every shape whose questions all have the first node_uid
ShapeBatches == {b \in Batches : \A k \in 1..b.P : b.node_uid[k] = 1}
\* a batch of one question and two wrong-answer pairs
OneBatch == [P |-> 1, N_neg |-> 2, node_uid |-> <<1>>]
\* the loaders of up to MaxLoaderLen batches, each of them any batch of S
LoadersOf(S) == {[k \in 1..n |-> S] : n \in 0..MaxLoaderLen}

\* batches of up to k questions of any node_uids, without wrong-answer pairs
QuestionBatches(k) == UNION {[P : {p}, N_neg : {0}, node_uid : [1..p -> Uids]] : p \in 0..k}
\* the loaders of up to MaxLoaderLen such batches with up to MaxQuestions
\* questions in all, every batch given
QuestionLoaders ==
    UNION {{[k \in 1..n |-> {l[k]}] : l \in {m \in [1..n -> QuestionBatches(MaxQuestions)] :
                                              SumSeq([k \in 1..n |-> m[k].P]) <= MaxQuestions}}
           : n \in 0..MaxLoaderLen}

Evaluate ==
    \/ EvalEnter
    \/ EvalFor
    \/ EvalQuestion
    \/ EvalBatchEnd
    \/ EvalExit

EvaluateModel ==
    \/ EvaluateModelEnter
    \/ EvaluateModelFor
    \/ EvaluateModelExit

Train ==
    \/ TrainEnter
    \/ EpochFor
    \/ TrainFor
    \/ EpochEnd
    \/ EpochAfterEval
    \/ SchedulerStep
    \/ TrainFinal
    \/ TrainAfterTest

TrainModel ==
    \/ TrainModelEnter
    \/ TrainModelEpochFor
    \/ TrainModelFor
    \/ TrainModelEpochEnd
    \/ TrainModelAfterEval
    \/ TrainModelFinal
    \/ TrainModelAfterTest

\* a clock that advances by one minute between two calls of get_time, for a
\* run of n epochs: start_time, two timestamps per epoch, end_time
MinuteClock(n) == [k \in 1..(2 * n + 2) |-> SecondsPerMinute * k]

InitLocals ==
    /\ pc = entry
    /\ exc = NoException
    /\ ev = EvInit
    /\ em = EmInit
    /\ tr = TrInit
    /\ tm = TmInit
    /\ parameters = 0
    /\ evaluated = [s \in Splits |-> 0]
    /\ fwd = NoForward
    /\ processed = <<>>
    /\ lastQ = NoQuestion

\* a run of train of up to MaxEpochs epochs, on loaders of every length whose
\* batches have one question and one or two wrong-answer pairs
Init ==
    /\ entry = "train"
    /\ mode \in {"train", "eval"}
    /\ split_loaders \in [Splits -> LoadersOf({b \in ShapeBatches : b.P = 1 /\ b.N_neg \in {1, 2}})]
    /\ losses = {1}
    /\ \E f \in Feedbacks \cup {NoFeedback} :
          llm_feedbacks_dict = [u \in Uids |-> IF u = 1 THEN f ELSE NoFeedback]
    /\ link_prediction_loss_weight = 3
    /\ num_epochs \in 1..MaxEpochs
    /\ times = MinuteClock(num_epochs)
    /\ split_name = "val"
    /\ frac = DefaultFrac
    /\ caller = "top"
    /\ InitLocals

Next == Train \/ Evaluate

Spec == Init /\ [][Next]_vars

\* one epoch of train in which the loader of one split has batches of every
\* shape and the loaders of the other splits have one batch
InitShape ==
    /\ entry = "train"
    /\ mode = "train"
    /\ \E focus \in Splits, l \in LoadersOf(ShapeBatches) :
          split_loaders = [s \in Splits |-> IF s = focus THEN l ELSE <<{OneBatch}>>]
    /\ losses = {1}
    /\ llm_feedbacks_dict = NoFeedbacks
    /\ link_prediction_loss_weight = 3
    /\ num_epochs = 1
    /\ times = MinuteClock(num_epochs)
    /\ split_name = "val"
    /\ frac = DefaultFrac
    /\ caller = "top"
    /\ InitLocals

SpecShape == InitShape /\ [][Next]_vars

\* a direct call of evaluate with the default frac on every loader of
\* questions and every feedback dict
InitEval ==
    /\ entry = "evaluate"
    /\ mode = "train"
    /\ split_name = "val"
    /\ \E l \in QuestionLoaders : split_loaders = [s \in Splits |-> IF s = split_name THEN l ELSE <<>>]
    /\ losses = {0}
    /\ llm_feedbacks_dict \in FeedbackDicts
    /\ link_prediction_loss_weight = 0
    /\ num_epochs = 0
    /\ times = <<>>
    /\ frac = DefaultFrac
    /\ caller = "top"
    /\ InitLocals

SpecEval == InitEval /\ [][Evaluate]_vars

\* a direct call of evaluate or of evaluate_model with every frac, a negative
\* one included, and every loader length
InitFrac ==
    /\ entry \in {"evaluate", "evaluate_model"}
    /\ mode \in {"train", "eval"}
    /\ split_name \in {"val", "test"}
    /\ \E l \in LoadersOf({b \in ShapeBatches : b.N_neg = 0}) :
          split_loaders = [s \in Splits |-> IF s = split_name THEN l ELSE <<>>]
    /\ losses = {0}
    /\ llm_feedbacks_dict = NoFeedbacks
    /\ link_prediction_loss_weight = 0
    /\ num_epochs = 0
    /\ times = <<>>
    /\ frac \in (-1)..MaxFracNum
    /\ caller = "top"
    /\ InitLocals

NextFrac == Evaluate \/ EvaluateModel

SpecFrac == InitFrac /\ [][NextFrac]_vars

\* one epoch of train on one-batch loaders, with every loss weight and every
\* pair of loss values
InitLoss ==
    /\ entry = "train"
    /\ mode = "train"
    /\ split_loaders = [s \in Splits |-> <<{OneBatch}>>]
    /\ losses = 0..MaxLoss
    /\ llm_feedbacks_dict = NoFeedbacks
    /\ link_prediction_loss_weight \in 0..One
    /\ num_epochs = 1
    /\ times = MinuteClock(num_epochs)
    /\ split_name = "val"
    /\ frac = DefaultFrac
    /\ caller = "top"
    /\ InitLocals

SpecLoss == InitLoss /\ [][Next]_vars

\* the timestamps of the clocks: unix seconds
Timestamps == {100, 160, 200, 245}
\* the clocks of a run of n epochs: the calls of get_time return timestamps
\* that never decrease
Clocks(n) == {c \in [1..(2 * n + 2) -> Timestamps] : \A k \in 1..(2 * n + 1) : c[k] <= c[k + 1]}

\* a run of train or of train_model of up to MaxEpochs epochs, none included,
\* on one-batch loaders, with every clock
InitTime ==
    /\ entry \in {"train", "train_model"}
    /\ mode = "train"
    /\ split_loaders = [s \in Splits |-> <<{OneBatch}>>]
    /\ losses = {1}
    /\ llm_feedbacks_dict = NoFeedbacks
    /\ link_prediction_loss_weight = 3
    /\ num_epochs \in 0..MaxEpochs
    /\ times \in Clocks(num_epochs)
    /\ split_name = "val"
    /\ frac = DefaultFrac
    /\ caller = "top"
    /\ InitLocals

NextTime == Train \/ Evaluate \/ TrainModel \/ EvaluateModel

SpecTime == InitTime /\ [][NextTime]_vars

\* the locals of the training function that the run calls
Run == IF entry = "train" THEN tr ELSE tm

\* after train or train_model returned, the caller, who owns the model it
\* passed in, updates its parameters in place
LaterTraining ==
    /\ pc = "done"
    /\ parameters < Run.opt_steps + MaxLaterSteps
    /\ parameters' = OptStep(parameters)
    /\ UNCHANGED <<pc, exc, mode, evaluated, inputs, split_name, frac, caller, ev, em, tr, tm, fwd, processed, lastQ>>

\* a run of train or of train_model of up to MaxEpochs epochs, none included,
\* on a train loader of every length, and what the caller does to the model
\* afterwards
InitSnapshot ==
    /\ entry \in {"train", "train_model"}
    /\ mode = "train"
    /\ \E l \in LoadersOf({OneBatch}) :
          split_loaders = [s \in Splits |-> IF s = "train" THEN l ELSE <<{OneBatch}>>]
    /\ losses = {1}
    /\ llm_feedbacks_dict = NoFeedbacks
    /\ link_prediction_loss_weight = 3
    /\ num_epochs \in 0..MaxEpochs
    /\ times = MinuteClock(num_epochs)
    /\ split_name = "val"
    /\ frac = DefaultFrac
    /\ caller = "top"
    /\ InitLocals

NextSnapshot == NextTime \/ LaterTraining

SpecSnapshot == InitSnapshot /\ [][NextSnapshot]_vars

\* ================================================================ claims

\* the indices are min(2*P, N_neg) distinct positions of the batch's N_neg
\* wrong-answer pairs
SampledFrom(batch, indices) ==
    /\ Len(indices) = Min(2 * batch.P, batch.N_neg)
    /\ \A k \in 1..Len(indices) : indices[k] \in 0..(batch.N_neg - 1)
    /\ \A j, k \in 1..Len(indices) : j # k => indices[j] # indices[k]

\* C1: for every batch train or evaluate processes, the negative sampler
\* returns exactly min(2*P, N_neg) indices, each in 0..N_neg-1, none twice.
C1_SamplerCount ==
    /\ SampledFrom(tr.batch, tr.neg_sample_indices)
    /\ SampledFrom(ev.batch, ev.neg_sample_indices)

\* train sampled 2 of the 3 negatives of a batch with 1 positive (2*P < N_neg)
\* and evaluate then sampled both negatives of a batch with 1 positive
C1_Witness ==
    /\ fwd.fn = "evaluate"
    /\ tr.batch.P = 1 /\ tr.batch.N_neg = 3 /\ Len(tr.neg_sample_indices) = 2
    /\ ev.batch.P = 1 /\ ev.batch.N_neg = 2 /\ Len(ev.neg_sample_indices) = 2

\* C10: in train and evaluate every label tensor that is accumulated has one
\* dimension, and neither the sampling step nor the concatenation fails
\* because of the number of dimensions of a label tensor.
C10_NoDimensionalityFailure ==
    /\ exc.type # "IndexError"
    /\ \A k \in 1..Len(tr.pos_y_true_tensors) : tr.pos_y_true_tensors[k].dim = 1
    /\ \A k \in 1..Len(tr.neg_y_true_tensors) : tr.neg_y_true_tensors[k].dim = 1
    /\ \A k \in 1..Len(ev.pos_y_true_tensors) : ev.pos_y_true_tensors[k].dim = 1
    /\ \A k \in 1..Len(ev.neg_y_true_tensors) : ev.neg_y_true_tensors[k].dim = 1

\* an iteration of evaluate's loop over the questions of the batch, for the
\* question at position ev.q
QuestionStep == pc = "eval_question" /\ ev.q <= Len(ev.batch.node_uid) /\ ev'.q = ev.q + 1
CurrentUid == ev.batch.node_uid[ev.q]
CurrentFeedback == llm_feedbacks_dict[CurrentUid]
\* the end of the batch: the averages and the conditional append
BatchEndStep == pc = "eval_question" /\ ev.q > Len(ev.batch.node_uid) /\ ev'.i = ev.i + 1

BatchLists(e) == <<e.vanilla_accuracy_list, e.vanilla_confidence_list,
                   e.llm_aided_accuracy_list, e.llm_aided_confidence_list>>
RunningLists(e) == <<e.average_llm_aided_confidence_list, e.average_llm_aided_accuracy_list,
                     e.average_llm_vanilla_confidence_list, e.average_llm_vanilla_accuracy_list>>
LabelLists(e) == <<e.pos_y_true_tensors, e.neg_y_true_tensors>>

\* C2: for a question with a feedback record, the context builder and
\* llm.inference are invoked iff its vanilla confidence is < 0.26; when it is
\* >= 0.26 the entries appended to the llm_aided lists are the precomputed
\* vanilla accuracy and confidence, the same as appended to the vanilla lists.
C2_ThresholdPolicy ==
    [][(QuestionStep /\ CurrentFeedback.present) =>
         LET conf == CurrentFeedback.cop_confidence_without_context
             acc == CurrentFeedback.is_correct_without_context
         IN  /\ lastQ'.uid = CurrentUid
             /\ lastQ'.inference <=> conf < 26
             /\ lastQ'.context <=> conf < 26
             /\ conf >= 26 =>
                  /\ ev'.llm_aided_confidence_list = Append(ev.llm_aided_confidence_list, conf)
                  /\ ev'.llm_aided_accuracy_list = Append(ev.llm_aided_accuracy_list, acc)
                  /\ ev'.vanilla_confidence_list = Append(ev.vanilla_confidence_list, conf)
                  /\ ev'.vanilla_accuracy_list = Append(ev.vanilla_accuracy_list, acc)
      ]_vars

\* a batch in which one question with confidence 0.26 was answered from its
\* feedback and another with confidence 0.25 went to the LLM
C2_Witness ==
    /\ pc = "eval_question"
    /\ ev.q = 3
    /\ llm_feedbacks_dict[ev.batch.node_uid[1]].present
    /\ llm_feedbacks_dict[ev.batch.node_uid[1]].cop_confidence_without_context = 26
    /\ llm_feedbacks_dict[ev.batch.node_uid[2]].present
    /\ llm_feedbacks_dict[ev.batch.node_uid[2]].cop_confidence_without_context = 25
    /\ lastQ.inference
    /\ Len(ev.llm_aided_confidence_list) = 2
    /\ ev.llm_aided_confidence_list[1] = 26

\* C3: a malformed LLM response (confidence == -1) for a question with vanilla
\* confidence < 0.26 adds no entry to the llm_aided lists, leaves the
\* accumulated link-prediction labels alone and raises nothing: the loop goes
\* on with the next question; if it was the only question of the batch the
\* batch's context averages are 0 and the loop goes on with the next batch.
C3_MalformedDropped ==
    [][/\ (QuestionStep /\ CurrentFeedback.present
              /\ CurrentFeedback.cop_confidence_without_context < 26
              /\ lastQ'.response.confidence = -1) =>
             /\ ev'.llm_aided_confidence_list = ev.llm_aided_confidence_list
             /\ ev'.llm_aided_accuracy_list = ev.llm_aided_accuracy_list
             /\ LabelLists(ev') = LabelLists(ev)
             /\ pc' = "eval_question"
             /\ exc' = NoException
       /\ (BatchEndStep /\ Len(ev.batch.node_uid) = 1 /\ lastQ.response.confidence = -1) =>
             /\ ev'.batch_average_context_confidence = IntVal(0)
             /\ ev'.batch_average_context_accuracy = IntVal(0)
             /\ LabelLists(ev') = LabelLists(ev)
             /\ pc' \in {"eval_for", "eval_exit"}
             /\ exc' = NoException
      ]_vars

\* the only question of the first batch got a malformed response, the batch's
\* context average is 0, its labels are accumulated, and the loop is about to
\* take the second batch
C3_Witness ==
    /\ pc = "eval_for"
    /\ ev.i = 1
    /\ ev.i < Len(split_loaders[split_name])
    /\ ev.batch.P = 1
    /\ lastQ.inference
    /\ lastQ.response.confidence = -1
    /\ ev.llm_aided_confidence_list = <<>>
    /\ ev.batch_average_context_confidence = IntVal(0)
    /\ Len(ev.pos_y_true_tensors) = 1

\* C4: a question whose node_uid has no feedback record triggers no context
\* building and no LLM call and adds no entry to the four per-batch lists; the
\* loop goes on with the next question and the batch's labels stay accumulated.
C4_MissingFeedbackSkipped ==
    [][(QuestionStep /\ ~CurrentFeedback.present) =>
         /\ lastQ'.uid = CurrentUid
         /\ ~lastQ'.inference
         /\ ~lastQ'.context
         /\ BatchLists(ev') = BatchLists(ev)
         /\ LabelLists(ev') = LabelLists(ev)
         /\ pc' = "eval_question"
         /\ exc' = NoException
      ]_vars

\* the first question of a batch had no feedback and was skipped, the second
\* one had feedback and was recorded, and evaluate returned the batch's labels
C4_Witness ==
    /\ pc = "returned"
    /\ ev.batch.P = 2
    /\ ~llm_feedbacks_dict[ev.batch.node_uid[1]].present
    /\ llm_feedbacks_dict[ev.batch.node_uid[2]].present
    /\ Len(ev.vanilla_accuracy_list) = 1
    /\ ev.true_size >= 2

\* the limit of the running evaluation, round(frac * len(loader)), and the
\* length of its loader
LoaderLength == Len(split_loaders[split_name])
Limit == PyRound(frac * LoaderLength, FracDen)
EvaluationOver == pc \in {"eval_exit", "em_exit", "returned", "raised"}
InLoaderOrder == \A k \in 1..Len(processed) : processed[k] = k

\* C5 as stated: evaluate and evaluate_model process at most
\* round(frac * len(loader)) batches, in loader order, and stop after the
\* batch whose number reaches the limit.
C5_AtMostLimit ==
    /\ Len(processed) <= Limit
    /\ InLoaderOrder

\* C5 as amended: they process at most max(1, round(frac * len(loader)))
\* batches, in loader order: the first batch of a non-empty loader is always
\* processed, and the loop stops after the batch whose number reaches the
\* limit, so that min(len(loader), max(1, limit)) batches are processed.
C5_AtMostLimitOrOne ==
    /\ Len(processed) <= Max(1, Limit)
    /\ InLoaderOrder
    /\ EvaluationOver => Len(processed) = Min(LoaderLength, Max(1, Limit))

\* frac = 0.5 on a loader of 2 batches: the limit is 1, the first batch was
\* processed, the second was not
C5_Witness ==
    /\ pc = "returned"
    /\ LoaderLength = 2
    /\ Limit = 1
    /\ processed = <<1>>

InEvaluate == pc \in {"eval_for", "eval_question", "eval_exit"}
EvaluateExited ==
    \/ pc \in {"epoch_after_eval", "train_after_test", "returned"}
    \/ pc = "raised" /\ exc.fn = "evaluate"

\* C6: evaluate puts the model into evaluation mode before its first forward
\* pass and leaves it in training mode whenever the call is exited; every
\* forward pass of evaluate runs in evaluation mode and every forward pass on
\* a training batch runs in training mode.
C6_ModeDiscipline ==
    /\ InEvaluate => mode = "eval"
    /\ fwd.fn = "evaluate" => fwd.mode = "eval"
    /\ fwd.fn = "train" => fwd.mode = "train"
    /\ EvaluateExited => mode = "train"

AppendedTo(old, new, x) == new = Append(old, x)

\* C7: the batch averages are appended to the four running lists iff the batch
\* produced at least one non-zero context-confidence data point; a batch whose
\* questions all lack feedback appends nothing; the four running lists always
\* have the same length.
C7_ConditionalAppend ==
    [][/\ \A j, k \in 1..4 : Len(RunningLists(ev')[j]) = Len(RunningLists(ev')[k])
       /\ BatchEndStep =>
             LET nonzero == \E k \in 1..Len(ev.llm_aided_confidence_list) : ev.llm_aided_confidence_list[k] # 0
                 nofeedback == \A k \in 1..Len(ev.batch.node_uid) : ~llm_feedbacks_dict[ev.batch.node_uid[k]].present
             IN  /\ nonzero =>
                       /\ AppendedTo(ev.average_llm_aided_confidence_list, ev'.average_llm_aided_confidence_list,
                                     ev'.batch_average_context_confidence)
                       /\ AppendedTo(ev.average_llm_aided_accuracy_list, ev'.average_llm_aided_accuracy_list,
                                     ev'.batch_average_context_accuracy)
                       /\ AppendedTo(ev.average_llm_vanilla_confidence_list, ev'.average_llm_vanilla_confidence_list,
                                     ev'.batch_average_vanilla_confidence)
                       /\ AppendedTo(ev.average_llm_vanilla_accuracy_list, ev'.average_llm_vanilla_accuracy_list,
                                     ev'.batch_average_vanilla_accuracy)
                 /\ ~nonzero => RunningLists(ev') = RunningLists(ev)
                 /\ nofeedback => RunningLists(ev') = RunningLists(ev)
      ]_vars

\* two batches are over: one was appended to the running lists, and the last
\* one, whose questions all lacked feedback, was not
C7_Witness ==
    /\ pc = "eval_exit"
    /\ ev.i = 2
    /\ ev.batch.P >= 1
    /\ \A k \in 1..Len(ev.batch.node_uid) : ~llm_feedbacks_dict[ev.batch.node_uid[k]].present
    /\ \A k \in 1..4 : Len(RunningLists(ev)[k]) = 1

BatchOver == pc \in {"eval_for", "eval_exit"} /\ ev.batch_num >= 1 /\ ev.i = ev.batch_num

\* C8: no division by zero is raised; the average of an empty per-batch list
\* is 0, and when no batch was appended to the running lists the returned
\* vanilla_accuracy and context_accuracy are 0.
C8_NoDivisionByZero ==
    /\ exc.type # "ZeroDivisionError"
    /\ BatchOver =>
          /\ ev.vanilla_confidence_list = <<>> => ev.batch_average_vanilla_confidence = IntVal(0)
          /\ ev.vanilla_accuracy_list = <<>> => ev.batch_average_vanilla_accuracy = IntVal(0)
          /\ ev.llm_aided_confidence_list = <<>> => ev.batch_average_context_confidence = IntVal(0)
          /\ ev.llm_aided_accuracy_list = <<>> => ev.batch_average_context_accuracy = IntVal(0)
    /\ (pc = "returned" /\ ev.average_llm_vanilla_accuracy_list = <<>>) =>
          ev.llm_results.vanilla_accuracy = IntVal(0)
    /\ (pc = "returned" /\ ev.average_llm_aided_accuracy_list = <<>>) =>
          ev.llm_results.context_accuracy = IntVal(0)

\* evaluate returned after a batch whose per-batch lists were empty and no
\* batch was appended to the running lists
C8_Witness ==
    /\ pc = "returned"
    /\ ev.batch_num >= 1
    /\ ev.batch.P >= 1
    /\ ev.llm_aided_accuracy_list = <<>>
    /\ ev.average_llm_aided_accuracy_list = <<>>
    /\ ev.llm_results.context_accuracy = IntVal(0)

\* C9: the two loss weights sum to 1 and total_loss is
\* w * link_prediction_loss + (1 - w) * llm_relevancy_loss; for w = 0.3 it is
\* 0.3 * L1 + 0.7 * L2 (weights and totals in tenths).
C9_ConvexCombination ==
    pc # "train" =>
       LET w == link_prediction_loss_weight
           L1 == tr.link_prediction_loss
           L2 == tr.llm_relevancy_loss
       IN  /\ w + tr.llm_relevancy_loss_weight = 10
           /\ tr.total_loss = w * L1 + (10 - w) * L2
           /\ w = 3 => tr.total_loss = 3 * L1 + 7 * L2

\* a training batch with w = 0.3, L1 = 1 and L2 = 2: total_loss is 1.7
C9_Witness ==
    /\ link_prediction_loss_weight = 3
    /\ tr.opt_steps = 1
    /\ tr.link_prediction_loss = 1
    /\ tr.llm_relevancy_loss = 2
    /\ tr.total_loss = 17


\* ------------------------------------------------------------------ C11
\* the ModelResult the run built and the minutes it computed from it
Returned == pc = "done"
Result == IF entry = "train" THEN tr.medical_hgt_result ELSE tm.model_result
TrainTimeMin == IF entry = "train" THEN tr.train_time_min ELSE tm.train_time_min
Durations(r) ==
    [k \in 1..Len(r.epoch_results) |->
        r.epoch_results[k].train_end_time - r.epoch_results[k].train_start_time]
StartEnd(r) ==
    [k \in 1..Len(r.epoch_results) |->
        <<r.epoch_results[k].train_start_time, r.epoch_results[k].train_end_time>>]

\* C11: get_total_train_time_min() is the floor of (the sum over all epoch
\* results of train_end_time - train_start_time) / 60, the division done once
\* on the sum: it is 1 for the epochs (100, 160) and (200, 245), and 0 for an
\* empty epoch sequence
C11_TotalTrainTimeMin ==
    Returned =>
        LET total == SumSeq(Durations(Result))
        IN  /\ SecondsPerMinute * TrainTimeMin <= total
            /\ total < SecondsPerMinute * (TrainTimeMin + 1)
            /\ StartEnd(Result) = <<<<100, 160>>, <<200, 245>>>> => TrainTimeMin = 1
            /\ Result.epoch_results = <<>> => TrainTimeMin = 0

\* train_model returned after the two epochs (100, 160) and (200, 245)
C11_Witness ==
    /\ Returned
    /\ entry = "train_model"
    /\ StartEnd(Result) = <<<<100, 160>>, <<200, 245>>>>
    /\ TrainTimeMin = 1

\* ------------------------------------------------------------------ C12
TrainLoaderLength == Len(split_loaders["train"])
\* the positions of train inside the batch loop and after it, before the
\* evaluation of the epoch
InBatches == pc \in {"train_for", "epoch_end"}
\* the position of train between two epochs, before the first and after the last
BetweenEpochs == pc \in {"epoch_for", "train_final"}

\* the positions of evaluate, from its call to its return
InEvaluation == pc \in {"evaluate", "eval_for", "eval_question", "eval_exit"}

\* what holds at every position of a run of train that has not failed
EpochInvariant ==
    /\ \A k \in 1..Len(tr.epoch_results) : tr.epoch_results[k].epoch_num = k
    /\ tr.epoch_num <= num_epochs
    /\ InBatches =>
          /\ tr.opt_steps = (tr.epoch_num - 1) * TrainLoaderLength + tr.i
          /\ evaluated["val"] = tr.epoch_num - 1
          /\ Len(tr.epoch_results) = tr.epoch_num - 1
          /\ tr.scheduler_steps = tr.epoch_num - 1
    /\ pc = "epoch_end" => tr.i = TrainLoaderLength
    /\ (InEvaluation /\ caller = "epoch") \/ pc = "epoch_after_eval" =>
          /\ tr.opt_steps = tr.epoch_num * TrainLoaderLength
          /\ evaluated["val"] = IF pc = "evaluate" THEN tr.epoch_num - 1 ELSE tr.epoch_num
          /\ Len(tr.epoch_results) = tr.epoch_num - 1
          /\ tr.scheduler_steps = tr.epoch_num - 1
    /\ pc = "scheduler_step" =>
          /\ evaluated["val"] = tr.epoch_num
          /\ Len(tr.epoch_results) = tr.epoch_num
          /\ tr.scheduler_steps = tr.epoch_num - 1
    /\ BetweenEpochs =>
          /\ tr.opt_steps = tr.epoch_num * TrainLoaderLength
          /\ evaluated["val"] = tr.epoch_num
          /\ Len(tr.epoch_results) = tr.epoch_num
          /\ tr.scheduler_steps = Len(tr.epoch_results)
    /\ pc \in {"train_final", "train_after_test", "done"} \/ (InEvaluation /\ caller = "final") =>
          /\ tr.epoch_num = num_epochs
          /\ Len(tr.epoch_results) = num_epochs
          /\ tr.opt_steps = num_epochs * TrainLoaderLength
          /\ evaluated["val"] = num_epochs
          /\ tr.scheduler_steps = num_epochs

\* what every step of train and of its evaluations does to the counts
EpochStep ==
    /\ \/ tr'.epoch_results = tr.epoch_results
       \/ /\ pc = "epoch_after_eval"
          /\ Len(tr'.epoch_results) = Len(tr.epoch_results) + 1
          /\ SubSeq(tr'.epoch_results, 1, Len(tr.epoch_results)) = tr.epoch_results
    /\ InEvaluation => tr'.opt_steps = tr.opt_steps /\ parameters' = parameters
    /\ tr'.opt_steps # tr.opt_steps =>
          pc = "train_for" /\ tr'.opt_steps = tr.opt_steps + 1 /\ tr'.i = tr.i + 1
    /\ tr'.scheduler_steps # tr.scheduler_steps =>
          pc = "scheduler_step" /\ tr'.scheduler_steps = tr.scheduler_steps + 1
    /\ evaluated'["val"] # evaluated["val"] =>
          pc = "evaluate" /\ caller = "epoch" /\ evaluated'["val"] = evaluated["val"] + 1

\* C12: a run of train that does not fail runs exactly num_epochs epochs; in
\* each epoch every training batch is processed with one optimizer step, none
\* during evaluation, then the val split is evaluated once, then one
\* EpochResult is appended, then the scheduler advances by one step; the
\* history only grows, its i-th entry has epoch_num = i, and at the end of
\* every epoch the scheduler steps equal the history length
C12_EpochProtocol == [](pc # "train" => EpochInvariant) /\ [][pc # "train" => EpochStep]_vars

\* train returned after two epochs of two batches each
C12_Witness ==
    /\ pc = "done"
    /\ num_epochs = 2
    /\ TrainLoaderLength = 2
    /\ tr.opt_steps = 4
    /\ evaluated["val"] = 2
    /\ Len(tr.epoch_results) = 2
    /\ tr.scheduler_steps = 2

\* ------------------------------------------------------------------ C13
\* the test evaluation has been called, or the run is past it
TestCalled == caller = "final"
\* the positions of the epochs, the evaluations of the val split included
InEpochs == pc \notin {"train", "train_model", "raised"} /\ ~TestCalled /\ pc \notin {"train_final", "tm_final"}

\* what holds at every position of a run of train or of train_model
SnapshotInvariant ==
    /\ ~TestCalled =>
          /\ Run.state_dict = NoStateDict
          /\ evaluated["test"] = 0
          /\ Run.saved = <<>>
    /\ TestCalled /\ pc # "raised" =>
          /\ Tensors(Run.state_dict) = Run.opt_steps
          /\ Run.opt_steps = num_epochs * TrainLoaderLength
          /\ evaluated["test"] = IF pc \in {"evaluate", "evaluate_model"} THEN 0 ELSE 1
    /\ TestCalled /\ ~Returned => Run.saved = <<>>
    /\ Returned =>
          /\ mode = "eval"
          /\ Len(Run.saved) = 1
          /\ Run.saved[1].epoch_results = Result.epoch_results
          /\ Run.saved[1].state_dict.value = Run.opt_steps
          /\ Tensors(Result.state_dict) = Run.opt_steps

\* what every step does to the snapshot, once it is taken
SnapshotStep ==
    /\ TestCalled => Run'.opt_steps = Run.opt_steps /\ Run'.state_dict = Run.state_dict
    /\ Returned =>
          /\ Tensors(Result.state_dict)' = Tensors(Result.state_dict)
          /\ Run'.saved = Run.saved
    /\ InEpochs => evaluated'["test"] = 0

\* C13: after the last epoch train takes the snapshot of the parameters, after
\* the last optimizer step and before the test evaluation, evaluates the test
\* split once and never during an epoch, sets the model to evaluation mode and
\* persists one ModelResult; the snapshot in it is a copy by value, equal to
\* the parameters at the time it was taken, and no later change of the model
\* changes it
C13_SnapshotAndPersist ==
    [](pc \notin {"train", "train_model"} => SnapshotInvariant)
        /\ [][pc \notin {"train", "train_model"} => SnapshotStep]_vars

\* train returned after training steps, and the caller has updated the
\* model's parameters since
C13_Witness ==
    /\ Returned
    /\ entry = "train"
    /\ Run.opt_steps > 0
    /\ parameters > Run.opt_steps
    /\ Tensors(Result.state_dict) = Run.opt_steps
====
